---- MODULE Spec2Model ----
(***************************************************************************)
(* Panel test execution engine of RalphVoices: the run request handler,    *)
(* the background response collection (processTestResponses), the          *)
(* in-memory progress map, and the score parsing of                        *)
(* generateConceptResponse.                                                *)
(*                                                                         *)
(* One test record is modelled, with any number of run requests up to      *)
(* MaxRequests.  The code between two awaits is one atomic step (single    *)
(* threaded event loop), and a database query takes effect at the moment   *)
(* its await resumes.  One batch promise (generator call, then INSERT of   *)
(* the response row) is one step: it is pending from the moment the call   *)
(* is issued until the row is stored or the call has thrown.               *)
(*                                                                         *)
(* Spec:         the run handler and processTestResponses.                 *)
(* LiveSpec:     the same, with store writes that throw and with every     *)
(*               issued call and write settling.                           *)
(* ReadSpec:     the same, with a client reading the results.              *)
(* DeleteSpec:   the same, with the test deleted at any moment.            *)
(* ObserveSpec:  LiveSpec and the deletion, with a progress socket.        *)
(* VariantSpec:  the variant generation requests for the persona.          *)
(* CascadeSpec:  Spec with one variant generation request.                 *)
(* ParseSpec:    generateConceptResponse applied to every bounded reply.   *)
(* AggSpec:      the summary and segments built from bounded responses.    *)
(* AnalysisSpec: analyzeTestResults, its sampling and its theme call.      *)
(* NormSpec:     the shape handling of generateVariants on bounded JSON.   *)
(* ScoreSpec:    calculateRalphScore applied to bounded summaries, with    *)
(*               the floating point arithmetic carried out exactly.        *)
(***************************************************************************)
EXTENDS Integers, Sequences, FiniteSets, TLC

\* ---------------------------------------------------------------- bounds
MaxVariants == 4
MaxRequests == 2
MaxChunks == 3
MaxResponses == 3
MaxPerScore == 24
MaxCount == 8
MaxKeys == 3
MaxGenRequests == 2
MaxGenCount == 2
MaxGenerated == 2

\* ------------------------------------------------------ program constants
BATCH_SIZE == 3
MAX_RESPONSES_FOR_ANALYSIS == 40

Requests == 1..MaxRequests
VariantIds == 1..MaxVariants
GenRequests == 1..MaxGenRequests
Terminal == {"complete", "failed"}

VARIABLES
  status,              \* tests.status, "deleted" when the row is gone
  responses_completed, \* tests.responses_completed
  responses_total,     \* tests.responses_total
  conceptText,         \* tests.concept_text is non-empty
  personaVariants,     \* number of persona_variants rows of the test's personas
  testResponses,       \* test_responses: number of rows per variant
  testResults,         \* test_results: number of rows of the test
  testProgress,        \* testProgress.get(testId), NoEntry when absent
  reqPc,               \* position of each run request in the handler
  seenStatus,          \* test.status as read by the request's SELECT
  totalResponses,      \* the handler's local totalResponses
  procPc,              \* position of each processTestResponses invocation
  batchStart,          \* loop variable i
  responsesLen,        \* responses.length of the invocation
  callState,           \* state of each batch promise of the invocation
  failedUpdate,        \* the un-awaited UPDATE ... 'failed' is in flight
  readPc,              \* position of the client's GET /:id/results request
  served,              \* the test_results row its last answer carried, 0: none
  content,             \* the generator's reply text, a sequence of chunks
  scoresObject,        \* the JSON object a chunk "obj" of the reply stands for
  conceptResponse,     \* what generateConceptResponse returned for content
  responses,           \* the responses array processTestResponses aggregates
  aggregate,           \* the summary and segments built from responses
  scoreCounts,         \* responses given to analyzeTestResults, per score
  sampledResponses,    \* its sampledResponses, per sentiment bucket
  themeReply,          \* what the theme call of analyzeTestResults did
  analysis,            \* what analyzeTestResults returned
  summaryIn,           \* the summary given to calculateRalphScore
  ralphScore,          \* what calculateRalphScore returned
  parsed,              \* what JSON.parse returned in generateVariants
  variantsResult,      \* what generateVariants returned for parsed
  seenEpoch,           \* variantEpoch at the run request's SELECT of variants
  genPc,               \* position of each POST /:id/variants request
  genCount,            \* its config.count
  genList,             \* generatedVariants.length
  genInserted,         \* insertedVariants.length
  oldLeft,             \* variants stored when it began that are still stored
  variantEpoch,        \* number of DELETE FROM persona_variants executed
  observer,            \* the progress socket: none, attached or detached
  forwarded            \* the last tuple the observer sent, NoEntry: none

vars == <<status, responses_completed, responses_total, conceptText,
          personaVariants, testResponses, testResults, testProgress,
          reqPc, seenStatus, totalResponses, procPc, batchStart,
          responsesLen, callState, failedUpdate, readPc, served, content,
          scoresObject,
          conceptResponse, responses, aggregate, scoreCounts,
          sampledResponses, themeReply, analysis, summaryIn, ralphScore,
          parsed, variantsResult, seenEpoch, genPc, genCount, genList,
          genInserted, oldLeft, variantEpoch, observer, forwarded>>

dbVars == <<status, responses_completed, responses_total, testResponses,
            testResults>>
testVars == <<conceptText, personaVariants>>
reqVars == <<reqPc, seenStatus, totalResponses>>
procVars == <<procPc, batchStart, responsesLen, callState, failedUpdate>>
aiVars == <<content, scoresObject, conceptResponse>>
aggVars == <<responses, aggregate>>
analysisVars == <<scoreCounts, sampledResponses, themeReply, analysis>>
scoreVars == <<summaryIn, ralphScore>>
normVars == <<parsed, variantsResult>>
pureVars == <<aiVars, aggVars, analysisVars, scoreVars, normVars>>
readVars == <<readPc, served>>
genVars == <<genPc, genCount, genList, genInserted, oldLeft, variantEpoch>>
obsVars == <<observer, forwarded>>
otherVars == <<genVars, obsVars>>
runVars == <<dbVars, testVars, testProgress, reqVars, procVars, readVars>>

NoEntry == [completed |-> -1, total |-> -1, status |-> "none"]

\* ---------------------------------------------------------------- helpers
RECURSIVE SumOver(_, _)
SumOver(f, S) ==
  IF S = {} THEN 0
  ELSE LET x == CHOOSE y \in S : TRUE IN f[x] + SumOver(f, S \ {x})

\* SELECT COUNT(*) FROM test_responses WHERE test_id = t.id
ResponseCount == SumOver(testResponses, VariantIds)

\* variants.slice(i, i + BATCH_SIZE), variants being rows 1..n in index order
Batch(i, n) == {v \in 1..n : i < v /\ v <= i + BATCH_SIZE}

\* the two status checks of the run handler
\* the tests row has not been deleted
TestExists == status # "deleted"

\* the value a column of the tests row has after an UPDATE ... WHERE id,
\* which changes nothing when the row is gone
Updated(old, new) == IF TestExists THEN new ELSE old

\* the persona_variants rows the request selected have not been deleted
VariantsExist(r) == seenEpoch[r] = variantEpoch

\* the values of genPc at which the request has been answered
GenAnswered == {"created", "empty", "error"}

StatusRejected(st) == st = "running" \/ st = "complete"

\* responses.push(...batchResults)
PushResultsBug(len, batch) == len + BATCH_SIZE
PushResults(len, batch) == len + Cardinality(batch)

\* the progress entry written by the catch handler of the background call
FailedEntry(total) == [completed |-> 0, total |-> total, status |-> "failed"]


\* ------------------------------------------- generateConceptResponse
\* The reply is a sequence of chunks: "text" (prose), "ws" (white space),
\* "sep" (the ---SCORES--- separator) and three chunks of JSON text: "null",
\* "num" (a bare number) and "obj" (the object scoresObject).
ChunkKinds == {"text", "ws", "sep", "null", "num", "obj"}
JsonChunks == {"null", "num", "obj"}

\* the result of a numeric operation on a value that is not a number
NaN == -1000

\* a field of the parsed object: missing, a number, or a value that is not
\* numeric (a word such as "high", an object)
Absent == [present |-> FALSE, n |-> 0]
Num(n) == [present |-> TRUE, n |-> n]
NotNumeric == [present |-> TRUE, n |-> NaN]
FieldValues == {Absent, NotNumeric} \cup {Num(n) : n \in {-3, 0, 7, 12}}
TagsValues == {"array", "other"}
ScoresObjects ==
  [sentiment_score : FieldValues, engagement_likelihood : FieldValues,
   share_likelihood : FieldValues, comprehension_score : FieldValues,
   reaction_tags : TagsValues]
EmptyObject ==
  [sentiment_score |-> Absent, engagement_likelihood |-> Absent,
   share_likelihood |-> Absent, comprehension_score |-> Absent,
   reaction_tags |-> "other"]

RECURSIVE SeqsUpTo(_, _)
SeqsUpTo(S, n) ==
  IF n = 0 THEN {<<>>}
  ELSE LET shorter == SeqsUpTo(S, n - 1)
       IN shorter \cup {Append(q, x) : q \in shorter, x \in S}

\* content.split('---SCORES---')
RECURSIVE Split(_)
Split(str) ==
  IF \A k \in 1..Len(str) : str[k] # "sep" THEN <<str>>
  ELSE LET k == CHOOSE j \in 1..Len(str) :
                  str[j] = "sep" /\ \A m \in 1..(j - 1) : str[m] # "sep"
       IN <<SubSeq(str, 1, k - 1)>> \o Split(SubSeq(str, k + 1, Len(str)))

\* String.prototype.trim
RECURSIVE Trim(_)
Trim(str) ==
  IF str = <<>> THEN str
  ELSE IF str[1] = "ws" THEN Trim(Tail(str))
  ELSE IF str[Len(str)] = "ws" THEN Trim(SubSeq(str, 1, Len(str) - 1))
  ELSE str

\* JSON.parse: the text is JSON when it is exactly one JSON value
JSONParse(str) ==
  IF Len(str) = 1 /\ str[1] \in JsonChunks
  THEN [ok |-> TRUE, value |-> str[1]]
  ELSE [ok |-> FALSE, value |-> "none"]

\* Math.min(10, Math.max(1, field || 5))
ClampScore(field) ==
  LET x == IF field.present /\ field.n # 0 THEN field.n ELSE 5
      lo == IF x < 1 THEN 1 ELSE x
  IN IF x = NaN THEN NaN
     ELSE IF lo > 10 THEN 10 ELSE lo

DefaultTags == <<"needs_more_info">>
ParsedTags == <<"excited">>
DefaultScores ==
  [sentiment_score |-> 5, engagement_likelihood |-> 5, share_likelihood |-> 5,
   comprehension_score |-> 5, reaction_tags |-> DefaultTags]

\* the scores built from the parsed value inside the try block
ScoresOf(obj) ==
  [sentiment_score |-> ClampScore(obj.sentiment_score),
   engagement_likelihood |-> ClampScore(obj.engagement_likelihood),
   share_likelihood |-> ClampScore(obj.share_likelihood),
   comprehension_score |-> ClampScore(obj.comprehension_score),
   reaction_tags |-> IF obj.reaction_tags = "array" THEN ParsedTags
                     ELSE DefaultTags]

\* the catch block of the score parsing: log, keep the scores set before
ParseFailedRethrows(scores) == [threw |-> TRUE, scores |-> scores]
ParseFailed(scores) == [threw |-> FALSE, scores |-> scores]

\* the scores block is parts[1] when it is a non-empty string
HasScoresBlock(parts) == Len(parts) >= 2 /\ parts[2] # <<>>

\* the parsing part of generateConceptResponse, after the reply arrived
generateConceptResponse(str, obj) ==
  LET parts == Split(str)
      responseText == Trim(parts[1])
      defaults == DefaultScores
      block == JSONParse(Trim(parts[2]))
      outcome ==
        IF ~HasScoresBlock(parts) THEN [threw |-> FALSE, scores |-> defaults]
        ELSE IF ~block.ok THEN ParseFailed(defaults)
        ELSE IF block.value = "null" THEN ParseFailed(defaults)
        ELSE IF block.value = "num"
             THEN [threw |-> FALSE, scores |-> ScoresOf(EmptyObject)]
        ELSE [threw |-> FALSE, scores |-> ScoresOf(obj)]
  IN [threw |-> outcome.threw,
      response_text |-> responseText,
      sentiment_score |-> outcome.scores.sentiment_score,
      engagement_likelihood |-> outcome.scores.engagement_likelihood,
      share_likelihood |-> outcome.scores.share_likelihood,
      comprehension_score |-> outcome.scores.comprehension_score,
      reaction_tags |-> outcome.scores.reaction_tags]

NotCalled ==
  [threw |-> FALSE, response_text |-> <<"none">>, sentiment_score |-> 0,
   engagement_likelihood |-> 0, share_likelihood |-> 0,
   comprehension_score |-> 0, reaction_tags |-> <<>>]

\* ---------------------------------------- aggregation of a finished run
\* Math.round(num / den) for a ratio that is not negative
RoundHalfUpBug(num, den) == num \div den

RoundHalfUp(num, den) == (2 * num + den) \div (2 * den)

\* Math.round(sum / count * 10) / 10, held in tenths
RoundTenths(sum, count) == RoundHalfUp(10 * sum, count)

Min(a, b) == IF a < b THEN a ELSE b
Max(a, b) == IF a > b THEN a ELSE b

\* scores a stored response carries, at and around the bucket limits
SentimentValues == {1, 3, 4, 6, 7, 10}
\* variant.age_actual, at and around the band limits
Ages == {24, 25, 34, 35}
AgeBands == {"18-24", "25-34", "35+"}

\* an element of the responses array of processTestResponses, reduced to
\* response.sentiment_score and variant.age_actual
ResponseKinds == [sentiment_score : SentimentValues, age_actual : Ages]

\* (score || 5)
OrFive(score) == IF score = 0 THEN 5 ELSE score

IsPositive(score) == OrFive(score) >= 7

IsNeutralBug(score) == OrFive(score) > 4 /\ OrFive(score) < 7

IsNeutral(score) == OrFive(score) >= 4 /\ OrFive(score) < 7

IsNegative(score) == OrFive(score) < 4

\* the summary object, reduced to the counts; each count is
\* responses.filter(r => ...).length
Summary(rs) ==
  [total_responses |-> Len(rs),
   sentiment |->
     [positive |-> Cardinality({i \in DOMAIN rs :
                                  IsPositive(rs[i].sentiment_score)}),
      neutral |-> Cardinality({i \in DOMAIN rs :
                                 IsNeutral(rs[i].sentiment_score)}),
      negative |-> Cardinality({i \in DOMAIN rs :
                                  IsNegative(rs[i].sentiment_score)})]]

AgeGroupBug(age) ==
  IF age <= 25 THEN "18-24" ELSE IF age < 35 THEN "25-34" ELSE "35+"

AgeGroup(age) ==
  IF age < 25 THEN "18-24" ELSE IF age < 35 THEN "25-34" ELSE "35+"

\* by_age of calculateSegments; a band no response falls in has no key in
\* the code and is shown here with count 0
calculateSegments(rs) ==
  [by_age |-> [b \in AgeBands |->
     LET members == {i \in DOMAIN rs : AgeGroup(rs[i].age_actual) = b}
         sum == SumOver([i \in DOMAIN rs |-> rs[i].sentiment_score], members)
     IN [count |-> Cardinality(members),
         avgSentiment |-> IF members = {} THEN 0
                          ELSE RoundTenths(sum, Cardinality(members))]]]

NotAggregated ==
  [summary |-> Summary(<<>>), segments |-> calculateSegments(<<>>)]

\* ------------------------------------------------------ analyzeTestResults
\* scores of the responses handed to analyzeTestResults, one per bucket
AnalysisScores == {3, 4, 7}

\* the sentiment buckets of the responses, scoreCounts[s] of them with score s
sentimentCounts(counts) ==
  [positive |-> SumOver([s \in AnalysisScores |->
                           IF IsPositive(s) THEN counts[s] ELSE 0],
                        AnalysisScores),
   neutral |-> SumOver([s \in AnalysisScores |->
                          IF IsNeutral(s) THEN counts[s] ELSE 0],
                       AnalysisScores),
   negative |-> SumOver([s \in AnalysisScores |->
                           IF IsNegative(s) THEN counts[s] ELSE 0],
                        AnalysisScores)]

targetPerGroup == MAX_RESPONSES_FOR_ANALYSIS \div 3

\* the size of sampleFromGroup(group, Math.min(group.length, targetPerGroup + 5))
GroupQuotaBug(len) == Min(len, targetPerGroup + 10)

GroupQuota(len) == Min(len, targetPerGroup + 5)

\* [...positive, ...neutral, ...negative].slice(0, limit), by bucket
SliceGroups(p, n, g, limit) ==
  LET sp == Min(p, limit)
      sn == Min(n, limit - sp)
      sg == Min(g, limit - sp - sn)
  IN [positive |-> sp, neutral |-> sn, negative |-> sg]

\* sampledResponses, as the number of members from each bucket
SampledResponses(counts) ==
  LET c == sentimentCounts(counts)
  IN IF SumOver(counts, AnalysisScores) > MAX_RESPONSES_FOR_ANALYSIS
     THEN SliceGroups(GroupQuota(c.positive), GroupQuota(c.neutral),
                      GroupQuota(c.negative), MAX_RESPONSES_FOR_ANALYSIS)
     ELSE c

NoSample == [positive |-> -1, neutral |-> -1, negative |-> -1]

\* what the theme call does: it throws, or its content is not JSON, is the
\* JSON value null, is an object without lists, or is an object with lists
ThemeReplies == {"throws", "unparsable", "null", "empty", "themes"}

NoThemes == [positive_themes |-> <<>>, concerns |-> <<>>, unexpected |-> <<>>]
SomeThemes ==
  [positive_themes |-> <<"theme">>, concerns |-> <<"concern">>,
   unexpected |-> <<"surprise">>]
SomeQuotes == <<"quote">>

\* both catch blocks log the error and fall through to the return
CallFailedBug(result) == [result EXCEPT !.threw = TRUE]

CallFailed(result) == result

analyzeTestResults(counts, reply) ==
  LET quantitative ==
        [threw |-> FALSE,
         summary |-> [total_responses |-> SumOver(counts, AnalysisScores),
                      sentiment |-> sentimentCounts(counts)],
         themes |-> NoThemes,
         key_quotes |-> <<>>]
  IN CASE reply = "throws" -> CallFailed(quantitative)
       [] reply \in {"unparsable", "null"} -> CallFailed(quantitative)
       [] reply = "empty" -> quantitative
       [] reply = "themes" ->
            [quantitative EXCEPT !.themes = SomeThemes,
                                 !.key_quotes = SomeQuotes]

NotAnalyzed ==
  [threw |-> FALSE,
   summary |-> [total_responses |-> -1,
                sentiment |-> [positive |-> 0, neutral |-> 0, negative |-> 0]],
   themes |-> NoThemes,
   key_quotes |-> <<>>]

\* ------------------------------------------------------ calculateRalphScore
\* the averages of a summary have one decimal and are held in tenths
AvgTenths == {0, 35, 70, 80, 90, 100}

Summaries ==
  [positive : 0..MaxCount, neutral : 0..MaxCount, negative : 0..MaxCount,
   avg_engagement : AvgTenths, avg_share_likelihood : AvgTenths,
   avg_comprehension : AvgTenths]

\* Math.max(0, Math.min(100, ralphScore))
ClampPercentBug(x) == x

ClampPercent(x) == Max(0, Min(100, x))

\* baseScore * 10 is baseNum / (100 * total) and distributionModifier is
\* modNum / (100 * total), so that the product is exact in integers
calculateRalphScore(s) ==
  LET total == s.positive + s.neutral + s.negative
      sentimentNum == s.positive * 10 + s.neutral * 5 + s.negative * 1
      baseNum == 300 * sentimentNum
                 + total * (30 * s.avg_engagement
                            + 25 * s.avg_share_likelihood
                            + 15 * s.avg_comprehension)
      modNum == 100 * total + 10 * s.positive - 15 * s.negative
  IN IF total = 0 THEN 0
     ELSE ClampPercent(RoundHalfUp(baseNum * modNum,
                                   10000 * total * total))

NotScored == -1

NoSummary ==
  [positive |-> 0, neutral |-> 0, negative |-> 0, avg_engagement |-> 0,
   avg_share_likelihood |-> 0, avg_comprehension |-> 0]

\* ------------------------------------- generateVariants shape handling
\* top-level keys the generator's JSON object can have; "7" stands for the
\* keys that are array indices, which Object.keys lists before all others
KeyNames == {"variants", "data", "items", "7"}
IndexKeys == {"7"}

\* a JSON value at the top level of the object: a list of variants or
\* something that is not a list
NotAList == [isList |-> FALSE, items |-> <<>>]
ListOf(items) == [isList |-> TRUE, items |-> items]
JsonValues == {NotAList, ListOf(<<>>), ListOf(<<"a">>), ListOf(<<"b", "c">>)}

\* the members of a JSON object in the order they were written
Entries == [key : KeyNames, value : JsonValues]
ObjectsUpTo(n) ==
  {o \in SeqsUpTo(Entries, n) :
     \A i, j \in DOMAIN o : i # j => o[i].key # o[j].key}

\* what JSON.parse returned: a list, an object, null, or a number
ParsedList(items) == [kind |-> "list", items |-> items, entries |-> <<>>]
ParsedObject(o) == [kind |-> "object", items |-> <<>>, entries |-> o]
ParsedNull == [kind |-> "null", items |-> <<>>, entries |-> <<>>]
ParsedNumber == [kind |-> "number", items |-> <<>>, entries |-> <<>>]
ParsedValues ==
  {ParsedList(v.items) : v \in JsonValues \ {NotAList}}
    \cup {ParsedObject(o) : o \in ObjectsUpTo(MaxKeys)}
    \cup {ParsedNull, ParsedNumber}

\* the subsequence of the entries whose key satisfies inIndex
RECURSIVE SelectKeys(_, _)
SelectKeys(o, inIndex) ==
  IF o = <<>> THEN <<>>
  ELSE IF (Head(o).key \in IndexKeys) = inIndex
       THEN <<Head(o)>> \o SelectKeys(Tail(o), inIndex)
       ELSE SelectKeys(Tail(o), inIndex)

\* Object.keys(parsed) with the values: index keys first, then the other
\* keys in insertion order
ObjectKeys(o) == SelectKeys(o, TRUE) \o SelectKeys(o, FALSE)

\* parsed[key], NotAList standing for undefined as well
Member(o, key) ==
  IF \E i \in DOMAIN o : o[i].key = key
  THEN o[CHOOSE i \in DOMAIN o : o[i].key = key].value
  ELSE NotAList

\* Object.keys(parsed).find(key => Array.isArray(parsed[key])): the index
\* in es of the first entry that is a list, 0 when there is none
FirstArray(es) ==
  IF \E i \in DOMAIN es : es[i].value.isList
  THEN CHOOSE i \in DOMAIN es :
         /\ es[i].value.isList
         /\ \A j \in 1..(i - 1) : ~es[j].value.isList
  ELSE 0

Returned(items) == [threw |-> FALSE, variants |-> items]
Thrown == [threw |-> TRUE, variants |-> <<>>]

\* the keys looked at by name before the others, in this order
PreferredKeysBug == <<"data", "variants">>

PreferredKeys == <<"variants", "data">>

\* no top-level value is a list: variants = []
NoArrayFoundBug == Thrown

NoArrayFound == Returned(<<>>)

\* lines 171-193; reading parsed.variants of null throws a TypeError, which
\* the catch block turns into 'Failed to generate variants'
NormalizeVariants(p) ==
  CASE p.kind = "list" -> Returned(p.items)
    [] p.kind = "null" -> Thrown
    [] p.kind = "number" -> NoArrayFound
    [] p.kind = "object" ->
         IF Member(p.entries, PreferredKeys[1]).isList
         THEN Returned(Member(p.entries, PreferredKeys[1]).items)
         ELSE IF Member(p.entries, PreferredKeys[2]).isList
         THEN Returned(Member(p.entries, PreferredKeys[2]).items)
         ELSE LET es == ObjectKeys(p.entries)
              IN IF FirstArray(es) # 0
                 THEN Returned(es[FirstArray(es)].value.items)
                 ELSE NoArrayFound

NotNormalized == [threw |-> FALSE, variants |-> <<"none">>]

\* ------------------------------------------------------------------- Init
\* the functions that are not being exercised hold no input and no result
AiIdle ==
  content = <<>> /\ scoresObject = EmptyObject /\ conceptResponse = NotCalled

AggIdle == responses = <<>> /\ aggregate = NotAggregated

AnalysisIdle ==
  /\ scoreCounts = [s \in AnalysisScores |-> 0]
  /\ sampledResponses = NoSample
  /\ themeReply = "none"
  /\ analysis = NotAnalyzed

ScoreIdle == summaryIn = NoSummary /\ ralphScore = NotScored

NormIdle == parsed = ParsedNull /\ variantsResult = NotNormalized

RunInit ==
  /\ status = "draft"
  /\ responses_completed = 0
  /\ responses_total = 0
  /\ testResponses = [v \in VariantIds |-> 0]
  /\ testResults = 0
  /\ testProgress = NoEntry
  /\ reqPc = [r \in Requests |-> "idle"]
  /\ seenStatus = [r \in Requests |-> "none"]
  /\ totalResponses = [r \in Requests |-> 0]
  /\ procPc = [r \in Requests |-> "none"]
  /\ batchStart = [r \in Requests |-> 0]
  /\ responsesLen = [r \in Requests |-> 0]
  /\ callState = [r \in Requests |-> [v \in VariantIds |-> "none"]]
  /\ failedUpdate = [r \in Requests |-> FALSE]
  /\ readPc = "idle"
  /\ served = 0
  /\ seenEpoch = [r \in Requests |-> 0]
  /\ genPc = [g \in GenRequests |-> "idle"]
  /\ genCount = [g \in GenRequests |-> MaxGenCount]
  /\ genList = [g \in GenRequests |-> 0]
  /\ genInserted = [g \in GenRequests |-> 0]
  /\ oldLeft = [g \in GenRequests |-> 0]
  /\ variantEpoch = 0
  /\ observer = "none"
  /\ forwarded = NoEntry

Init ==
  /\ RunInit
  /\ personaVariants \in 0..MaxVariants
  /\ conceptText \in BOOLEAN
  /\ AiIdle /\ AggIdle /\ AnalysisIdle /\ ScoreIdle /\ NormIdle

\* --------------------------------------------------- POST /:id/run handler
\* SELECT the test, then the status and concept checks.  Requests are
\* interchangeable: they are numbered in the order of their SELECT.
RunSelectTest(r) ==
  /\ reqPc[r] = "idle"
  /\ \A q \in Requests : q < r => reqPc[q] # "idle"
  /\ seenStatus' = [seenStatus EXCEPT ![r] = status]
  /\ reqPc' = [reqPc EXCEPT ![r] =
       IF ~TestExists \/ StatusRejected(status) \/ ~conceptText
       THEN "rejected"
       ELSE "selectVariants"]
  /\ UNCHANGED <<pureVars, readVars, otherVars, seenEpoch>>
  /\ UNCHANGED <<dbVars, testVars, testProgress, totalResponses, procVars>>

\* SELECT the variants of the test's personas, reject when there are none
RunSelectVariants(r) ==
  /\ reqPc[r] = "selectVariants"
  /\ totalResponses' = [totalResponses EXCEPT ![r] = personaVariants]
  /\ reqPc' = [reqPc EXCEPT ![r] =
       IF personaVariants = 0 THEN "rejected" ELSE "update"]
  /\ seenEpoch' = [seenEpoch EXCEPT ![r] = variantEpoch]
  /\ UNCHANGED <<pureVars, readVars, otherVars>>
  /\ UNCHANGED <<dbVars, testVars, testProgress, seenStatus, procVars>>

\* UPDATE tests SET status = 'running', initialise the progress entry, answer
\* the request and start processTestResponses, which issues the first batch
RunStart(r) ==
  /\ reqPc[r] = "update"
  /\ status' = Updated(status, "running")
  /\ responses_total' = Updated(responses_total, totalResponses[r])
  /\ testProgress' = [completed |-> 0, total |-> totalResponses[r],
                      status |-> "running"]
  /\ reqPc' = [reqPc EXCEPT ![r] = "accepted"]
  /\ procPc' = [procPc EXCEPT ![r] = "batch"]
  /\ batchStart' = [batchStart EXCEPT ![r] = 0]
  /\ responsesLen' = [responsesLen EXCEPT ![r] = 0]
  /\ callState' = [callState EXCEPT ![r] =
       [v \in VariantIds |->
          IF v \in Batch(0, totalResponses[r]) THEN "pending" ELSE "none"]]
  /\ UNCHANGED <<pureVars, readVars, otherVars, seenEpoch>>
  /\ UNCHANGED <<responses_completed, testResponses, testResults, testVars,
                 seenStatus, totalResponses, failedUpdate>>

\* ------------------------------------------------- processTestResponses
\* One batch promise rejects: generateConceptResponse throws, or the INSERT
\* of its row is refused because the test is gone.  The first
\* rejection of the batch rejects Promise.all and runs the catch handler of
\* the background call; the other promises of the batch stay in flight.
\* Promises that have settled in a rejected batch are looked at by nobody:
\* their state is "none".
CallThrows(r, v) ==
  /\ callState[r][v] = "pending"
  /\ IF procPc[r] = "batch"
     THEN /\ procPc' = [procPc EXCEPT ![r] = "failed"]
          /\ failedUpdate' = [failedUpdate EXCEPT ![r] = TRUE]
          /\ testProgress' = FailedEntry(totalResponses[r])
          /\ callState' = [callState EXCEPT ![r] =
               [w \in VariantIds |->
                  IF w # v /\ callState[r][w] = "pending" THEN "pending"
                  ELSE "none"]]
     ELSE /\ callState' = [callState EXCEPT ![r][v] = "none"]
          /\ UNCHANGED <<procPc, failedUpdate, testProgress>>
  /\ UNCHANGED <<pureVars, readVars, otherVars, seenEpoch>>
  /\ UNCHANGED <<dbVars, testVars, reqVars, batchStart, responsesLen>>

\* One batch promise resolves: generateConceptResponse returned and the
\* INSERT INTO test_responses is done.  When it is the last of the batch,
\* Promise.all resolves: push the results, update the progress entry, issue
\* the counter UPDATE.
CallSaved(r, v) ==
  /\ callState[r][v] = "pending"
  /\ TestExists
  /\ VariantsExist(r)
  /\ testResponses' = [testResponses EXCEPT ![v] = @ + 1]
  /\ callState' = [callState EXCEPT ![r][v] =
       IF procPc[r] = "batch" THEN "done" ELSE "none"]
  /\ LET batch == Batch(batchStart[r], totalResponses[r])
         len == PushResults(responsesLen[r], batch)
     IN IF procPc[r] = "batch" /\ \A w \in batch : callState'[r][w] = "done"
        THEN /\ responsesLen' = [responsesLen EXCEPT ![r] = len]
             /\ testProgress' =
                  IF testProgress # NoEntry
                  THEN [testProgress EXCEPT !.completed = len]
                  ELSE testProgress
             /\ procPc' = [procPc EXCEPT ![r] = "counter"]
        ELSE UNCHANGED <<responsesLen, testProgress, procPc>>
  /\ UNCHANGED <<pureVars, readVars, otherVars, seenEpoch>>
  /\ UNCHANGED <<status, responses_completed, responses_total, testResults,
                 testVars, reqVars, batchStart, failedUpdate>>

\* UPDATE tests SET responses_completed resolves; wait before the next batch
\* or, after the last one, build the aggregate and issue its INSERT
CounterUpdated(r) ==
  /\ procPc[r] = "counter"
  /\ responses_completed' = Updated(responses_completed, responsesLen[r])
  /\ procPc' = [procPc EXCEPT ![r] =
       IF batchStart[r] + BATCH_SIZE < totalResponses[r] THEN "delay"
       ELSE "results"]
  /\ UNCHANGED <<pureVars, readVars, otherVars, seenEpoch>>
  /\ UNCHANGED <<status, responses_total, testResponses, testResults,
                 testVars, testProgress, reqVars, batchStart, responsesLen,
                 callState, failedUpdate>>

\* the inter-batch timer fires: next loop iteration issues the next batch
DelayDone(r) ==
  /\ procPc[r] = "delay"
  /\ batchStart' = [batchStart EXCEPT ![r] = @ + BATCH_SIZE]
  /\ callState' = [callState EXCEPT ![r] =
       [v \in VariantIds |->
          IF v \in Batch(batchStart[r] + BATCH_SIZE, totalResponses[r])
          THEN "pending" ELSE "none"]]
  /\ procPc' = [procPc EXCEPT ![r] = "batch"]
  /\ UNCHANGED <<pureVars, readVars, otherVars, seenEpoch>>
  /\ UNCHANGED <<dbVars, testVars, testProgress, reqVars, responsesLen,
                 failedUpdate>>

\* INSERT INTO test_results resolves; issue the status UPDATE
ResultsInsertedBug(r) ==
  /\ procPc[r] = "results"
  /\ TestExists
  /\ procPc' = [procPc EXCEPT ![r] = "status"]
  /\ UNCHANGED <<pureVars, readVars, otherVars, seenEpoch>>
  /\ UNCHANGED <<dbVars, testVars, testProgress, reqVars, batchStart,
                 responsesLen, callState, failedUpdate>>

ResultsInserted(r) ==
  /\ procPc[r] = "results"
  /\ TestExists
  /\ testResults' = testResults + 1
  /\ procPc' = [procPc EXCEPT ![r] = "status"]
  /\ UNCHANGED <<pureVars, readVars, otherVars, seenEpoch>>
  /\ UNCHANGED <<status, responses_completed, responses_total, testResponses,
                 testVars, testProgress, reqVars, batchStart, responsesLen,
                 callState, failedUpdate>>

\* UPDATE tests SET status = 'complete' resolves; mark the progress entry
StatusUpdated(r) ==
  /\ procPc[r] = "status"
  /\ status' = Updated(status, "complete")
  /\ testProgress' = [completed |-> responsesLen[r],
                      total |-> responsesLen[r], status |-> "complete"]
  /\ procPc' = [procPc EXCEPT ![r] = "done"]
  /\ UNCHANGED <<pureVars, readVars, otherVars, seenEpoch>>
  /\ UNCHANGED <<responses_completed, responses_total, testResponses,
                 testResults, testVars, reqVars, batchStart, responsesLen,
                 callState, failedUpdate>>

\* the un-awaited UPDATE tests SET status = 'failed' reaches the database
FailedUpdateApplied(r) ==
  /\ failedUpdate[r]
  /\ status' = Updated(status, "failed")
  /\ failedUpdate' = [failedUpdate EXCEPT ![r] = FALSE]
  /\ UNCHANGED <<pureVars, readVars, otherVars, seenEpoch>>
  /\ UNCHANGED <<responses_completed, responses_total, testResponses,
                 testResults, testVars, testProgress, reqVars, procPc,
                 batchStart, responsesLen, callState>>

Next ==
  \/ \E r \in Requests : RunSelectTest(r)
  \/ \E r \in Requests : RunSelectVariants(r)
  \/ \E r \in Requests : RunStart(r)
  \/ \E r \in Requests, v \in VariantIds : CallThrows(r, v)
  \/ \E r \in Requests, v \in VariantIds : CallSaved(r, v)
  \/ \E r \in Requests : CounterUpdated(r)
  \/ \E r \in Requests : DelayDone(r)
  \/ \E r \in Requests : ResultsInserted(r)
  \/ \E r \in Requests : StatusUpdated(r)
  \/ \E r \in Requests : FailedUpdateApplied(r)

Spec == Init /\ [][Next]_vars

\* ------------------------------------------------ store writes that throw
\* An awaited write of processTestResponses (the counter UPDATE, the INSERT
\* INTO test_results, the status UPDATE) throws: processTestResponses
\* rejects and the catch handler of the background call runs
WriteThrows(r) ==
  /\ procPc[r] \in {"counter", "results", "status"}
  /\ procPc' = [procPc EXCEPT ![r] = "failed"]
  /\ failedUpdate' = [failedUpdate EXCEPT ![r] = TRUE]
  /\ testProgress' = FailedEntry(totalResponses[r])
  /\ UNCHANGED <<pureVars, readVars, otherVars, seenEpoch>>
  /\ UNCHANGED <<dbVars, testVars, reqVars, batchStart, responsesLen,
                 callState>>

\* the un-awaited UPDATE tests SET status = 'failed' throws: its promise has
\* no handler and the row is left as it is
FailedUpdateThrows(r) ==
  /\ failedUpdate[r]
  /\ failedUpdate' = [failedUpdate EXCEPT ![r] = FALSE]
  /\ UNCHANGED <<pureVars, readVars, otherVars, seenEpoch>>
  /\ UNCHANGED <<dbVars, testVars, testProgress, reqVars, procPc, batchStart,
                 responsesLen, callState>>

LiveNext ==
  \/ Next
  \/ \E r \in Requests : WriteThrows(r)
  \/ \E r \in Requests : FailedUpdateThrows(r)

\* every query, generator call and timer that has been issued settles:
\* it returns or it throws
Settles ==
  /\ \A r \in Requests : WF_vars(RunSelectVariants(r))
  /\ \A r \in Requests : WF_vars(RunStart(r))
  /\ \A r \in Requests, v \in VariantIds :
       WF_vars(CallSaved(r, v) \/ CallThrows(r, v))
  /\ \A r \in Requests :
       WF_vars(CounterUpdated(r) \/ ResultsInserted(r) \/ StatusUpdated(r)
                 \/ WriteThrows(r))
  /\ \A r \in Requests : WF_vars(DelayDone(r))
  /\ \A r \in Requests :
       WF_vars(FailedUpdateApplied(r) \/ FailedUpdateThrows(r))

LiveSpec == Init /\ [][LiveNext]_vars /\ Settles

\* -------------------------------------------------- GET /:id/results
\* One client reads the results again and again.  SELECT the status: the
\* answer is 404 when the test is gone and 400 when it is not complete
GetResultsSelectTest ==
  /\ readPc = "idle"
  /\ readPc' = IF TestExists /\ status = "complete" THEN "selectResults"
               ELSE "idle"
  /\ UNCHANGED <<served, dbVars, testVars, testProgress, reqVars, procVars,
                 pureVars, otherVars, seenEpoch>>

\* SELECT * FROM test_results WHERE test_id: 404 without a row, else the
\* answer is rows[0]; the query has no ORDER BY, so that with several rows
\* any of them can come first
GetResultsSelectResults ==
  /\ readPc = "selectResults"
  /\ readPc' = "idle"
  /\ IF testResults = 0 THEN UNCHANGED served
     ELSE \E row \in 1..testResults : served' = row
  /\ UNCHANGED <<dbVars, testVars, testProgress, reqVars, procVars, pureVars,
                 otherVars, seenEpoch>>

ReadNext ==
  \/ Next
  \/ GetResultsSelectTest
  \/ GetResultsSelectResults

ReadSpec == Init /\ [][ReadNext]_vars

\* ------------------------------------------------------- DELETE /:id
\* DELETE FROM tests resolves: the row is gone, and with it its
\* test_responses and test_results rows (ON DELETE CASCADE); the handler
\* then removes the progress entry
DeleteTest ==
  /\ TestExists
  /\ status' = "deleted"
  /\ responses_completed' = 0
  /\ responses_total' = 0
  /\ testResponses' = [v \in VariantIds |-> 0]
  /\ testResults' = 0
  /\ testProgress' = NoEntry
  /\ UNCHANGED <<pureVars, readVars, otherVars, seenEpoch>>
  /\ UNCHANGED <<testVars, reqVars, procVars>>

\* INSERT INTO test_results is refused because the test is gone:
\* processTestResponses rejects and the catch handler of the background
\* call runs
ResultsRejected(r) ==
  /\ procPc[r] = "results"
  /\ ~TestExists
  /\ procPc' = [procPc EXCEPT ![r] = "failed"]
  /\ failedUpdate' = [failedUpdate EXCEPT ![r] = TRUE]
  /\ testProgress' = FailedEntry(totalResponses[r])
  /\ UNCHANGED <<pureVars, readVars, otherVars, seenEpoch>>
  /\ UNCHANGED <<dbVars, testVars, reqVars, batchStart, responsesLen,
                 callState>>

DeleteNext ==
  \/ Next
  \/ DeleteTest
  \/ \E r \in Requests : ResultsRejected(r)

DeleteSpec == Init /\ [][DeleteNext]_vars

\* ------------------------------------------ POST /:id/variants handler
\* One persona is modelled, the one whose variants the test uses.  Requests
\* are interchangeable: they are numbered in the order of their SELECT.
\* variantConfigSchema.parse and SELECT the persona, which exists; oldLeft
\* counts the variants stored at this moment that are still stored
GenSelectPersona(g, n) ==
  /\ genPc[g] = "idle"
  /\ \A h \in GenRequests : h < g => genPc[h] # "idle"
  /\ genPc' = [genPc EXCEPT ![g] = "delete"]
  /\ genCount' = [genCount EXCEPT ![g] = n]
  /\ oldLeft' = [oldLeft EXCEPT ![g] = personaVariants]
  /\ UNCHANGED <<genList, genInserted, variantEpoch>>
  /\ UNCHANGED <<runVars, seenEpoch, obsVars, pureVars>>

\* DELETE FROM persona_variants WHERE persona_id resolves: every variant of
\* the persona is gone, and with it the test_responses rows that reference
\* it (variant_id ... ON DELETE CASCADE); generateVariants is called
GenDelete(g) ==
  /\ genPc[g] = "delete"
  /\ genPc' = [genPc EXCEPT ![g] = "generate"]
  /\ personaVariants' = 0
  /\ testResponses' = [v \in VariantIds |-> 0]
  /\ oldLeft' = [h \in GenRequests |-> 0]
  /\ variantEpoch' = variantEpoch + 1
  /\ UNCHANGED <<genCount, genList, genInserted>>
  /\ UNCHANGED <<status, responses_completed, responses_total, testResults,
                 conceptText, testProgress, reqVars, procVars, readVars,
                 seenEpoch, obsVars, pureVars>>

\* generateVariants returns a list of len variants, whatever count was asked
\* for: an empty list is answered at once with 200 and variants_generated 0,
\* otherwise the first INSERT is issued
GenReturns(g, len) ==
  /\ genPc[g] = "generate"
  /\ genList' = [genList EXCEPT ![g] = len]
  /\ genPc' = [genPc EXCEPT ![g] = IF len = 0 THEN "empty" ELSE "insert"]
  /\ UNCHANGED <<genCount, genInserted, oldLeft, variantEpoch>>
  /\ UNCHANGED <<runVars, seenEpoch, obsVars, pureVars>>

\* generateVariants throws: generatedVariants = [], answered with 200,
\* variants_generated 0 and the error message
GenThrows(g) ==
  /\ genPc[g] = "generate"
  /\ genList' = [genList EXCEPT ![g] = 0]
  /\ genPc' = [genPc EXCEPT ![g] = "error"]
  /\ UNCHANGED <<genCount, genInserted, oldLeft, variantEpoch>>
  /\ UNCHANGED <<runVars, seenEpoch, obsVars, pureVars>>

\* one INSERT INTO persona_variants resolves; after the last one the request
\* is answered with 201 and the inserted rows
GenInsert(g) ==
  /\ genPc[g] = "insert"
  /\ personaVariants' = personaVariants + 1
  /\ genInserted' = [genInserted EXCEPT ![g] = @ + 1]
  /\ genPc' = [genPc EXCEPT ![g] =
       IF genInserted[g] + 1 = genList[g] THEN "created" ELSE "insert"]
  /\ UNCHANGED <<genCount, genList, oldLeft, variantEpoch>>
  /\ UNCHANGED <<dbVars, conceptText, testProgress, reqVars, procVars,
                 readVars, seenEpoch, obsVars, pureVars>>

GenStep(g) ==
  \/ \E n \in 1..MaxGenCount : GenSelectPersona(g, n)
  \/ GenDelete(g)
  \/ \E len \in 0..MaxGenerated : GenReturns(g, len)
  \/ GenThrows(g)
  \/ GenInsert(g)

VariantNext == \E g \in GenRequests : GenStep(g)

VariantSpec == Init /\ [][VariantNext]_vars

\* a run of the test with one variant generation request for its persona
CascadeNext ==
  \/ Next
  \/ GenStep(1)

CascadeSpec == Init /\ [][CascadeNext]_vars

\* ------------------------------------- WebSocket /ws/tests/:id/progress
\* a client connects: setInterval starts the polling
ObserverConnect ==
  /\ observer = "none"
  /\ observer' = "attached"
  /\ UNCHANGED <<forwarded, runVars, seenEpoch, genVars, pureVars>>

\* one tick of the interval: when the entry exists it is sent, and after a
\* terminal one clearInterval and ws.close() run
ObserverTick ==
  /\ observer = "attached"
  /\ IF testProgress # NoEntry
     THEN /\ forwarded' = testProgress
          /\ observer' = IF testProgress.status \in Terminal
                         THEN "detached" ELSE "attached"
     ELSE UNCHANGED <<forwarded, observer>>
  /\ UNCHANGED <<runVars, seenEpoch, genVars, pureVars>>

\* the client closes the socket, or the socket fails: clearInterval
ObserverClosed ==
  /\ observer = "attached"
  /\ observer' = "detached"
  /\ UNCHANGED <<forwarded, runVars, seenEpoch, genVars, pureVars>>

ObserveNext ==
  \/ LiveNext
  \/ DeleteTest
  \/ \E r \in Requests : ResultsRejected(r)
  \/ ObserverConnect
  \/ ObserverTick
  \/ ObserverClosed

\* the interval fires again and again while it is set
ObserveSpec ==
  Init /\ [][ObserveNext]_vars /\ Settles /\ WF_vars(ObserverTick)

\* ------------------------------------- score parsing on bounded replies
Replies == SeqsUpTo(ChunkKinds, MaxChunks)

ParseInit ==
  /\ RunInit
  /\ personaVariants = 0
  /\ conceptText = TRUE
  /\ content \in Replies
  /\ scoresObject \in
       IF \E k \in 1..Len(content) : content[k] = "obj" THEN ScoresObjects
       ELSE {EmptyObject}
  /\ conceptResponse = NotCalled
  /\ AggIdle /\ AnalysisIdle /\ ScoreIdle /\ NormIdle

\* the reply has arrived: generateConceptResponse parses it and returns
ParseReply ==
  /\ conceptResponse = NotCalled
  /\ conceptResponse' = generateConceptResponse(content, scoresObject)
  /\ UNCHANGED <<content, scoresObject, runVars, otherVars, seenEpoch, aggVars, analysisVars,
                 scoreVars, normVars>>

ParseNext == ParseReply

ParseSpec == ParseInit /\ [][ParseNext]_vars

\* ------------------------------------- aggregation on bounded responses
RunIdle == RunInit /\ personaVariants = 0 /\ conceptText = TRUE

AggInit ==
  /\ RunIdle /\ AiIdle /\ AnalysisIdle /\ ScoreIdle /\ NormIdle
  /\ responses \in SeqsUpTo(ResponseKinds, MaxResponses) \ {<<>>}
  /\ aggregate = NotAggregated

\* the batches are done: segments and summary are built from responses
BuildResults ==
  /\ aggregate' = [summary |-> Summary(responses),
                   segments |-> calculateSegments(responses)]
  /\ UNCHANGED <<responses, runVars, otherVars, seenEpoch, aiVars, analysisVars, scoreVars,
                 normVars>>

AggNext == BuildResults

AggSpec == AggInit /\ [][AggNext]_vars

\* ---------------------------------- analyzeTestResults on bounded inputs
AnalysisInit ==
  /\ RunIdle /\ AiIdle /\ AggIdle /\ ScoreIdle /\ NormIdle
  /\ scoreCounts \in [AnalysisScores -> 0..MaxPerScore]
  /\ sampledResponses = NoSample
  /\ themeReply = "none"
  /\ analysis = NotAnalyzed

AnalyzeTestResults ==
  \E reply \in ThemeReplies :
    /\ sampledResponses' = SampledResponses(scoreCounts)
    /\ themeReply' = reply
    /\ analysis' = analyzeTestResults(scoreCounts, reply)
    /\ UNCHANGED <<scoreCounts, runVars, otherVars, seenEpoch, aiVars, aggVars, scoreVars,
                   normVars>>

AnalysisNext == AnalyzeTestResults

AnalysisSpec == AnalysisInit /\ [][AnalysisNext]_vars

\* --------------------------------- calculateRalphScore on bounded inputs
ScoreInit ==
  /\ RunIdle /\ AiIdle /\ AggIdle /\ AnalysisIdle /\ NormIdle
  /\ summaryIn \in Summaries
  /\ ralphScore = NotScored

RenderScore ==
  /\ ralphScore' = calculateRalphScore(summaryIn)
  /\ UNCHANGED <<summaryIn, runVars, otherVars, seenEpoch, aiVars, aggVars, analysisVars,
                 normVars>>

ScoreNext == RenderScore

ScoreSpec == ScoreInit /\ [][ScoreNext]_vars

\* ------------------------------ generateVariants on bounded JSON values
NormInit ==
  /\ RunIdle /\ AiIdle /\ AggIdle /\ AnalysisIdle /\ ScoreIdle
  /\ parsed \in ParsedValues
  /\ variantsResult = NotNormalized

\* JSON.parse has returned: pick the list of variants out of parsed
PickVariants ==
  /\ variantsResult' = NormalizeVariants(parsed)
  /\ UNCHANGED <<parsed, runVars, otherVars, seenEpoch, aiVars, aggVars, analysisVars, scoreVars>>

NormNext == PickVariants

NormSpec == NormInit /\ [][NormNext]_vars

\* ================================================================ claims
\* promises of the run that have been issued and have not settled
InFlight == {c \in Requests \X VariantIds : callState[c[1]][c[2]] = "pending"}

\* C1: once the persisted status of a run is complete or failed, no step
\* changes it again.
C1_TerminalStatusIsFinal ==
  [][(status \in Terminal => status' = status)]_vars

\* C2: a run request that reads a status other than draft (running,
\* complete or failed) is rejected and starts no background processing.
C2_NonDraftRunRejected ==
  \A r \in Requests :
    seenStatus[r] \in {"running", "complete", "failed"}
      => reqPc[r] = "rejected" /\ procPc[r] = "none"

\* C3: of the run requests that read the test in status draft at most one
\* starts processTestResponses, and no variant has two response rows.
C3_SingleOrchestrator ==
  /\ Cardinality({r \in Requests :
                   seenStatus[r] = "draft" /\ procPc[r] # "none"}) <= 1
  /\ \A v \in VariantIds : testResponses[v] <= 1

\* C4: when the status is complete, every one of the N = responses_total
\* variants has exactly one response row, there are N rows in all, and
\* responses_completed = N.
C4_CompleteHasOneRowPerVariant ==
  status = "complete" =>
    /\ \A v \in VariantIds :
         testResponses[v] = (IF v <= responses_total THEN 1 ELSE 0)
    /\ ResponseCount = responses_total
    /\ responses_completed = responses_total

\* C5: the number of response rows of the run never exceeds responses_total.
C5_RowsAtMostTotal == ResponseCount <= responses_total

\* C6 (as stated): in every state responses_completed equals the number of
\* response rows of the run.
C6_CounterEqualsRows == responses_completed = ResponseCount

\* C6 (amended): responses_completed never exceeds the number of response
\* rows inserted for the run; it is written after the rows of a batch and
\* lags behind them in between.
C6_CounterAtMostRows == responses_completed <= ResponseCount

\* C6 witness: in the second batch a row is stored that the counter, written
\* for the first batch, does not count yet.
C6_Witness ==
  /\ status = "running"
  /\ responses_completed = BATCH_SIZE
  /\ ResponseCount = BATCH_SIZE + 1

\* C7: while the persisted status is not terminal, no step decreases
\* responses_completed, responses_total or the completed and total of the
\* progress entry (the step that makes the run terminal included).
C7_CountersMonotone ==
  [][(status \notin Terminal =>
        /\ responses_completed' >= responses_completed
        /\ responses_total' >= responses_total
        /\ (testProgress # NoEntry /\ testProgress' # NoEntry) =>
             /\ testProgress'.completed >= testProgress.completed
             /\ testProgress'.total >= testProgress.total)]_vars

\* C8: the step that marks the progress entry failed keeps the completed
\* and total values the entry had.
C8_FailureFreezesProgress ==
  [][((testProgress.status # "failed" /\ testProgress'.status = "failed") =>
        /\ testProgress'.completed = testProgress.completed
        /\ testProgress'.total = testProgress.total)]_vars

\* C9: at most BATCH_SIZE generator calls of the run are issued and not yet
\* settled.
C9_AtMostBatchSizeInFlight == Cardinality(InFlight) <= BATCH_SIZE

\* C10: when the reply has no ---SCORES--- separator, or an empty block
\* after it, or a block that JSON.parse rejects, generateConceptResponse
\* does not throw and returns the default scores 5, 5, 5, 5 and the tags
\* [needs_more_info].
C10_BadBlockGivesDefaults ==
  LET parts == Split(content)
      noBlock == (\A k \in 1..Len(content) : content[k] # "sep")
                 \/ parts[2] = <<>>
  IN (conceptResponse # NotCalled
      /\ (noBlock \/ ~JSONParse(Trim(parts[2])).ok))
     => /\ ~conceptResponse.threw
        /\ conceptResponse.sentiment_score = 5
        /\ conceptResponse.engagement_likelihood = 5
        /\ conceptResponse.share_likelihood = 5
        /\ conceptResponse.comprehension_score = 5
        /\ conceptResponse.reaction_tags = <<"needs_more_info">>

\* C10 witness: a reply with prose, the separator and a block that is not
\* JSON has been parsed into the default scores.
C10_Witness ==
  /\ content = <<"text", "sep", "text">>
  /\ conceptResponse # NotCalled
  /\ ~conceptResponse.threw
  /\ conceptResponse.sentiment_score = 5
  /\ conceptResponse.reaction_tags = <<"needs_more_info">>

\* C11: every response generateConceptResponse returns has its four scores
\* in 1..10, whatever the scores block of the reply holds.
C11_ScoresInRange ==
  conceptResponse # NotCalled =>
    /\ conceptResponse.sentiment_score \in 1..10
    /\ conceptResponse.engagement_likelihood \in 1..10
    /\ conceptResponse.share_likelihood \in 1..10
    /\ conceptResponse.comprehension_score \in 1..10

\* C12: in the summary built for a finished run the three sentiment counts
\* add up to total_responses, positive counting the scores 7..10, neutral
\* the scores 4..6 and negative the scores 1..3.
C12_SentimentCountsAddUp ==
  aggregate # NotAggregated =>
    LET s == aggregate.summary
        n(S) == Cardinality({i \in DOMAIN responses :
                               responses[i].sentiment_score \in S})
    IN /\ s.total_responses = Len(responses)
       /\ s.sentiment.positive + s.sentiment.neutral + s.sentiment.negative
            = s.total_responses
       /\ s.sentiment.positive = n(7..10)
       /\ s.sentiment.neutral = n(4..6)
       /\ s.sentiment.negative = n(1..3)

C12_Witness ==
  /\ aggregate # NotAggregated
  /\ Len(responses) = 3
  /\ \E i \in DOMAIN responses : responses[i].sentiment_score = 4
  /\ aggregate.summary.sentiment
       = [positive |-> 1, neutral |-> 1, negative |-> 1]

\* C13: for 7 positive, 2 neutral, 1 negative, avg_engagement 8,
\* avg_share_likelihood 7 and avg_comprehension 9 the composite score is 84.
\* (averages in tenths)
C13_ExampleScoreIs84 ==
  (/\ ralphScore # NotScored
   /\ summaryIn = [positive |-> 7, neutral |-> 2, negative |-> 1,
                   avg_engagement |-> 80, avg_share_likelihood |-> 70,
                   avg_comprehension |-> 90])
    => ralphScore = 84

C13_Witness ==
  /\ summaryIn.positive = 7 /\ summaryIn.neutral = 2 /\ summaryIn.negative = 1
  /\ summaryIn.avg_engagement = 80
  /\ summaryIn.avg_share_likelihood = 70
  /\ summaryIn.avg_comprehension = 90
  /\ ralphScore = 84

\* C14: calculateRalphScore returns an integer from 0 to 100 for every
\* summary, and 0 when the three sentiment counts add up to 0.
C14_ScoreInRange ==
  ralphScore # NotScored =>
    /\ ralphScore \in 0..100
    /\ (summaryIn.positive + summaryIn.neutral + summaryIn.negative = 0
          => ralphScore = 0)

C14_Witness ==
  /\ ralphScore = 100
  /\ summaryIn.positive > 0 /\ summaryIn.neutral = 0 /\ summaryIn.negative = 0
  /\ summaryIn.avg_engagement = 100
  /\ summaryIn.avg_share_likelihood = 100
  /\ summaryIn.avg_comprehension = 100

\* C15: calculateSegments counts a response in band 18-24 when the variant
\* is at most 24, in 25-34 when it is 25 to 34, and in 35+ when it is 35 or
\* more.
C15_AgeBands ==
  aggregate # NotAggregated =>
    LET by_age == aggregate.segments.by_age
        n(lo, hi) == Cardinality({i \in DOMAIN responses :
                                    /\ responses[i].age_actual >= lo
                                    /\ responses[i].age_actual <= hi})
    IN /\ by_age["18-24"].count = n(0, 24)
       /\ by_age["25-34"].count = n(25, 34)
       /\ by_age["35+"].count = n(35, 200)

C15_Witness ==
  /\ aggregate # NotAggregated
  /\ {responses[i].age_actual : i \in DOMAIN responses} = {25, 34, 35}
  /\ aggregate.segments.by_age["18-24"].count = 0
  /\ aggregate.segments.by_age["25-34"].count = 2
  /\ aggregate.segments.by_age["35+"].count = 1

\* C16: for more than 40 responses the sample sent for theme extraction has
\* at most 40 members and at least one from every bucket that is not empty
\* in the input; for 40 or fewer it is the whole input.
C16_SampleCoversBuckets ==
  analysis # NotAnalyzed =>
    LET input == sentimentCounts(scoreCounts)
        total == SumOver(scoreCounts, AnalysisScores)
        size == sampledResponses.positive + sampledResponses.neutral
                  + sampledResponses.negative
    IN IF total > MAX_RESPONSES_FOR_ANALYSIS
       THEN /\ size <= MAX_RESPONSES_FOR_ANALYSIS
            /\ input.positive > 0 => sampledResponses.positive > 0
            /\ input.neutral > 0 => sampledResponses.neutral > 0
            /\ input.negative > 0 => sampledResponses.negative > 0
            /\ sampledResponses.positive <= input.positive
            /\ sampledResponses.neutral <= input.neutral
            /\ sampledResponses.negative <= input.negative
       ELSE sampledResponses = input

C16_Witness ==
  /\ analysis # NotAnalyzed
  /\ scoreCounts[7] > targetPerGroup + 5
  /\ scoreCounts[4] > targetPerGroup + 5
  /\ scoreCounts[3] > targetPerGroup + 5
  /\ sampledResponses.negative > 0
  /\ sampledResponses.negative < targetPerGroup + 5

\* C17: when the theme call throws or its output cannot be parsed,
\* analyzeTestResults returns the quantitative summary with empty
\* positive_themes, concerns, unexpected and key_quotes.
C17_ThemeFailureKeepsSummary ==
  (analysis # NotAnalyzed /\ themeReply \in {"throws", "unparsable", "null"})
    => /\ ~analysis.threw
       /\ analysis.summary.total_responses
            = scoreCounts[3] + scoreCounts[4] + scoreCounts[7]
       /\ analysis.summary.sentiment
            = [positive |-> scoreCounts[7], neutral |-> scoreCounts[4],
               negative |-> scoreCounts[3]]
       /\ analysis.themes.positive_themes = <<>>
       /\ analysis.themes.concerns = <<>>
       /\ analysis.themes.unexpected = <<>>
       /\ analysis.key_quotes = <<>>

C17_Witness ==
  /\ themeReply = "throws"
  /\ ~analysis.threw
  /\ analysis.summary.total_responses = 3
  /\ analysis.summary.sentiment
       = [positive |-> 1, neutral |-> 1, negative |-> 1]
  /\ analysis.themes = NoThemes

\* C18: once the test has been deleted the progress map holds no entry for
\* it, also when the deletion happens while the run is being processed.
C18_NoEntryAfterDelete == ~TestExists => testProgress = NoEntry

\* C19: at most one test_results row is written for a run, and a run whose
\* status is complete has exactly one.
C19_OneAggregateRow ==
  /\ testResults <= 1
  /\ status = "complete" => testResults = 1

\* C20: the results endpoint answers with an aggregate only after it has
\* read the status complete, and every answer that carries an aggregate
\* carries the same one as the answer before it.
C20_ReadsAgree ==
  [][(served' # served => (readPc = "selectResults" /\ served = 0))]_vars

\* C21: generateVariants yields the same list for a bare list, for an object
\* with the list under "variants" and for an object with the list under
\* "data"; for an object without any list it yields the empty list and does
\* not throw.
C21_ShapesGiveSameList ==
  variantsResult # NotNormalized =>
    LET es == parsed.entries
        lists == {i \in DOMAIN es : es[i].value.isList}
    IN /\ parsed.kind = "list" => variantsResult = Returned(parsed.items)
       /\ (parsed.kind = "object" /\ Len(es) = 1 /\ lists = {1}
             /\ es[1].key \in {"variants", "data"})
            => variantsResult = Returned(es[1].value.items)
       /\ (parsed.kind = "object" /\ lists = {})
            => variantsResult = Returned(<<>>)

C21_Witness ==
  /\ parsed.kind = "object"
  /\ Len(parsed.entries) = 2
  /\ \A i \in DOMAIN parsed.entries : ~parsed.entries[i].value.isList
  /\ variantsResult = Returned(<<>>)

\* C27 as stated: for an object, generateVariants accepts the first
\* top-level value in insertion order that is a list, whatever the keys.
C27_FirstListInInsertionOrder ==
  (variantsResult # NotNormalized /\ parsed.kind = "object"
     /\ FirstArray(parsed.entries) # 0)
    => variantsResult
         = Returned(parsed.entries[FirstArray(parsed.entries)].value.items)

\* C27 amended: the list under "variants" is accepted first, then the list
\* under "data"; when neither is a list, a list under a key that is an array
\* index is accepted, and otherwise the first top-level value in insertion
\* order that is a list.
C27_NamedKeysThenInsertionOrder ==
  (variantsResult # NotNormalized /\ parsed.kind = "object") =>
    LET es == parsed.entries
        at(k) == {i \in DOMAIN es : es[i].key = k /\ es[i].value.isList}
        lists == {i \in DOMAIN es : es[i].value.isList}
    IN /\ \A i \in at("variants") : variantsResult = Returned(es[i].value.items)
       /\ at("variants") = {} =>
            \A i \in at("data") : variantsResult = Returned(es[i].value.items)
       /\ (at("variants") = {} /\ at("data") = {})
            => \A i \in at("7") : variantsResult = Returned(es[i].value.items)
       /\ (at("variants") = {} /\ at("data") = {} /\ at("7") = {}
             /\ lists # {})
            => \E i \in lists :
                 /\ \A j \in lists : i <= j
                 /\ variantsResult = Returned(es[i].value.items)

C27_Witness ==
  /\ parsed.kind = "object"
  /\ Len(parsed.entries) = 2
  /\ parsed.entries[1].key = "items"
  /\ parsed.entries[1].value = ListOf(<<"a">>)
  /\ parsed.entries[2].key = "variants"
  /\ parsed.entries[2].value = ListOf(<<"b", "c">>)
  /\ variantsResult = Returned(<<"b", "c">>)

\* C24: no response row of the run is inserted after the status of the run
\* has become failed.
C24_NoRowAfterFailed ==
  [][(status = "failed" => ResponseCount' <= ResponseCount)]_vars

\* C28: whenever the persisted status is complete an aggregate row exists,
\* and the progress entry shows complete only when an orchestrator has
\* finished both the aggregate INSERT and the status UPDATE.
C28_AggregateBeforeComplete ==
  /\ status = "complete" => testResults >= 1
  /\ testProgress.status = "complete" =>
       /\ \E r \in Requests : procPc[r] = "done"
       /\ TestExists => testResults >= 1

C28_Witness ==
  /\ status = "complete"
  /\ testProgress.status = "complete"
  /\ testResults = 1
  /\ \E r \in Requests : procPc[r] = "done"

\* C29: whenever the progress entry shows complete or failed, the persisted
\* status of the run is the same.
C29_TerminalProgressMatchesStatus ==
  testProgress.status \in Terminal => status = testProgress.status

\* C25: a run whose status is running eventually has the status complete or
\* failed, when every generator call and store write returns or throws.
C25_RunningLeadsToTerminal == (status = "running") ~> (status \in Terminal)

\* C22: a variant generation request with requested count N yields at most
\* N variants: generateVariants returns no more than N and the handler
\* stores no more than N.
C22_AtMostRequestedCount ==
  \A g \in GenRequests :
    /\ genList[g] <= genCount[g]
    /\ genInserted[g] <= genCount[g]

\* C30: when a variant generation request is answered, no variant stored
\* before the request is left, and when it is answered with an empty result
\* or a generator error the persona has no variant at all.
C30_DestructiveReplace ==
  [][(\A g \in GenRequests :
        (genPc[g] \notin GenAnswered /\ genPc'[g] \in GenAnswered)
          => /\ oldLeft'[g] = 0
             /\ genPc'[g] \in {"empty", "error"} => personaVariants' = 0)]_vars

\* C23: while the test exists, the number of response rows of a variant
\* never goes down: no row is deleted by a later operation.
C23_ResponsesAppendOnly ==
  [][(TestExists' =>
        \A v \in VariantIds : testResponses'[v] >= testResponses[v])]_vars

\* C26: once the observer has forwarded a terminal tuple it is detached and
\* forwards nothing more, and when the progress entry is terminal while the
\* observer is attached, the observer is eventually detached.
C26_ObserverDetaches ==
  /\ [](forwarded.status \in Terminal => observer = "detached")
  /\ [][(observer = "detached" => forwarded' = forwarded)]_vars
  /\ (observer = "attached" /\ testProgress.status \in Terminal)
       ~> (observer = "detached")
====
